---- MODULE Spec2Model ----
(***************************************************************************)
(* State-machine model of the ContextMenu component                        *)
(* (packages/core/src/components/context-menu/contextMenu.tsx).            *)
(*                                                                         *)
(* One action models one event-loop turn: the handler that runs, the       *)
(* re-render React performs when a state hook changed, the commit of the   *)
(* container ref and the passive effect on [disabled].                     *)
(***************************************************************************)
EXTENDS Integers, Sequences, FiniteSets, TLC

VARIABLES
    disabled,       \* prop `disabled` of the last render
    content,        \* prop `content` of the last render
    children,       \* prop `children` of the last render
    onContextMenu,  \* prop `onContextMenu` of the last render
    targetOffset,   \* useState: Offset | undefined
    mouseEvent,     \* useState: the retained event | undefined
    isOpen,         \* useState: boolean
    containerRef,   \* containerRef.current
    handleContextMenu, \* the memoized closure attached to the container
    maybePopover,   \* the Popover element of the last render, or undefined
    dom,            \* the container element and its ancestors, nearest first
    lastOp,         \* what the last turn was given and what it did to its event
    handledSoFar,   \* how many trigger events the handler has handled: none, one, several
    pending,        \* state-hook writes of the running handler that are not applied yet
    outer           \* an enclosing ContextMenu the events bubble to, if there is one

vars == <<disabled, content, children, onContextMenu, targetOffset, mouseEvent,
          isOpen, containerRef, handleContextMenu, maybePopover, dom, lastOp,
          handledSoFar, pending, outer>>

-----------------------------------------------------------------------------
(* Bounds and input sets *)

MaxEventId == 2
MaxCallbacks == 1
MaxDepth == 2

Undefined == [undefined |-> TRUE]
Null == [null |-> TRUE]

EventIds == 1..MaxEventId

\* viewport coordinates of the right-clicks that are tried
ClientPoints == { [clientX |-> 120, clientY |-> 80], [clientX |-> 1208, clientY |-> 0] }

\* bounding rectangles (left/top) an element of the page may have
Rects == { [left |-> 0, top |-> 0], [left |-> 50, top |-> 30] }

\* an element: whether it carries Classes.FIXED_POSITIONING_CONTAINING_BLOCK, and its rectangle
Elements == [marked : BOOLEAN, rect : Rects]

\* the container followed by its ancestors
DomChains == UNION { [1..n -> Elements] : n \in 1..MaxDepth }

\* the pages of the interaction runs: the container alone, offset from the viewport
\* origin, carrying the marker or not
ShallowDoms == { d \in DomChains : Len(d) = 1 /\ d[1].rect # [left |-> 0, top |-> 0] }

Events == { [id |-> i, clientX |-> p.clientX, clientY |-> p.clientY, defaultPrevented |-> dp] :
              i \in EventIds, p \in ClientPoints, dp \in BOOLEAN }

\* `content`: undefined, a JSX element, or a render function (returning an element, or undefined)
ContentOptions == { "undefined", "element", "function:element", "function:undefined" }

\* `children`: React nodes, or a render function that attaches `ref` and `onContextMenu`
\* to its container as the documentation of the prop requires
ChildrenOptions == { "node", "function:ref" }

\* ... and a render function that attaches the handler but never the ref
AnyChildren == ChildrenOptions \cup { "function:noref" }

\* `onContextMenu`: absent, or one of a few callback identities
CallbackOptions == { Undefined } \cup { [callback |-> c] : c \in 1..MaxCallbacks }

\* the element the container ref points to once attached: dom[1]
ContainerElement == [element |-> "container"]

-----------------------------------------------------------------------------
(* Pure functions *)

\* Utils.isFunction
IsFunction(value) ==
    value \in { "function:element", "function:undefined", "function:ref", "function:noref" }

Digit(d) == <<"0", "1", "2", "3", "4", "5", "6", "7", "8", "9">>[d + 1]

RECURSIVE NatToString(_)
NatToString(n) == IF n < 10 THEN <<Digit(n)>> ELSE NatToString(n \div 10) \o <<Digit(n % 10)>>

\* `${n}` for an integer n
NumberToString(n) == IF n < 0 THEN <<"-">> \o NatToString(0 - n) ELSE NatToString(n)

\* a getPopoverKey that drops the separator: `${left}${top}`
getPopoverKeyUnseparated(offset) ==
    IF offset = Undefined
      THEN <<"d", "e", "f", "a", "u", "l", "t">>
      ELSE NumberToString(offset.left) \o NumberToString(offset.top)

\* getPopoverKey: a string, as its sequence of characters
getPopoverKey(offset) ==
    IF offset = Undefined
      THEN <<"d", "e", "f", "a", "u", "l", "t">>
      ELSE NumberToString(offset.left) \o <<"x">> \o NumberToString(offset.top)

\* Element.closest(selector) from chain[1] upwards: the index of the first marked element, 0 if none
Closest(chain) ==
    IF \E i \in 1..Len(chain) : chain[i].marked
      THEN CHOOSE i \in 1..Len(chain) : chain[i].marked /\ \A j \in 1..(i - 1) : ~chain[j].marked
      ELSE 0

\* a getContainingBlockOffset that tests the container alone (matches() for closest())
getContainingBlockOffsetOfContainer(targetElement, chain) ==
    IF targetElement # Null /\ chain[1].marked
      THEN chain[1].rect
      ELSE [left |-> 0, top |-> 0]

\* getContainingBlockOffset(targetElement), reading the page `chain`
getContainingBlockOffset(targetElement, chain) ==
    IF targetElement # Null /\ Closest(chain) # 0
      THEN chain[Closest(chain)].rect
      ELSE [left |-> 0, top |-> 0]

\* content(contentProps) for a render-function `content`
CallContent(cont, contentProps) ==
    IF cont = "function:element" THEN "element" ELSE "undefined"

\* a menu that forgets the disabled flag
MenuWhileDisabled(dis, cont, contentProps) ==
    IF IsFunction(cont) THEN CallContent(cont, contentProps) ELSE cont

\* const menu = disabled ? undefined : isFunction(content) ? content(contentProps) : content
Menu(dis, cont, contentProps) ==
    IF dis THEN "undefined"
    ELSE IF IsFunction(cont) THEN CallContent(cont, contentProps)
    ELSE cont

\* const maybePopover = menu === undefined ? undefined : <Popover key=... isOpen=... />
MaybePopover(menu, contentProps) ==
    IF menu = "undefined"
      THEN Undefined
      ELSE [key |-> getPopoverKey(contentProps.targetOffset), isOpen |-> contentProps.isOpen]

\* const contentProps = { isOpen, mouseEvent, targetOffset }
ContentProps == [isOpen |-> isOpen, mouseEvent |-> mouseEvent, targetOffset |-> targetOffset]

\* what the ref holds after a commit: the static form always attaches it
AttachRef(chil) == IF chil = "function:noref" THEN Null ELSE ContainerElement

\* useCallback(fn, deps): the previous closure unless a dependency changed
UseCallback(previous, fresh) == IF previous.deps = fresh.deps THEN previous ELSE fresh

\* a closure memoized on [containerRef.current, onContextMenu] only
ClosureKeptAcrossDisabled(dis, chil, popover, cb, refCurrent) ==
    [ deps |-> <<refCurrent, cb>>,
      disabled |-> dis, childrenIsFunction |-> IsFunction(chil),
      hasPopover |-> (popover # Undefined),
      onContextMenu |-> cb ]

\* the closure `handleContextMenu` a render creates, with what it captures
\* (of the captured children only isFunction(children) is ever read, and of the
\* captured Popover element only `maybePopover !== undefined`)
Closure(dis, chil, popover, cb, refCurrent) ==
    [ deps |-> <<refCurrent, cb, dis>>,
      disabled |-> dis, childrenIsFunction |-> IsFunction(chil),
      hasPopover |-> (popover # Undefined),
      onContextMenu |-> cb ]

\* one render of the component: the Popover element and the memoized handler
Render(dis, cont, chil, cb, contentProps, refCurrent, previous) ==
    LET popover == MaybePopover(Menu(dis, cont, contentProps), contentProps)
    IN [ maybePopover |-> popover,
         handleContextMenu |-> UseCallback(previous, Closure(dis, chil, popover, cb, refCurrent)) ]

\* the first render, which memoizes nothing yet
Mount(dis, cont, chil, cb, contentProps) ==
    LET popover == MaybePopover(Menu(dis, cont, contentProps), contentProps)
    IN [ maybePopover |-> popover,
         handleContextMenu |-> Closure(dis, chil, popover, cb, Null) ]

-----------------------------------------------------------------------------
(* Handlers, as functions of what they read *)

\* a shouldHandleEvent that forgets the content: !disabled
ShouldHandleEventWhenEnabled(h) == ~h.disabled

\* const shouldHandleEvent = !disabled && (isFunction(children) || maybePopover !== undefined)
ShouldHandleEvent(h) == ~h.disabled /\ (h.childrenIsFunction \/ h.hasPopover)

\* onContextMenu?.(e): the calls made, each with the callback and the event it was given
PassThrough(h, e) ==
    IF h.onContextMenu = Undefined THEN <<>>
    ELSE << [callback |-> h.onContextMenu, event |-> e.id] >>

\* a handler that makes the pass-through call only for the events it handles
CallHandleContextMenuQuietly(h, e, refCurrent, chain, st) ==
    IF e.defaultPrevented \/ ~ShouldHandleEvent(h)
      THEN [ state |-> st, prevented |-> e.defaultPrevented, calls |-> <<>> ]
      ELSE LET block == getContainingBlockOffset(refCurrent, chain)
           IN [ state |-> [ isOpen |-> TRUE,
                            mouseEvent |-> [e EXCEPT !.defaultPrevented = TRUE],
                            targetOffset |-> [ left |-> e.clientX - block.left,
                                               top |-> e.clientY - block.top ] ],
                prevented |-> TRUE,
                calls |-> PassThrough(h, e) ]

\* a handler that computes the anchor before it decides whether to handle the event
CallHandleContextMenuAnchoringFirst(h, e, refCurrent, chain, st) ==
    LET block == getContainingBlockOffset(refCurrent, chain)
        anchor == [ left |-> e.clientX - block.left, top |-> e.clientY - block.top ]
    IN IF e.defaultPrevented
         THEN [ state |-> st, prevented |-> TRUE, calls |-> <<>> ]
       ELSE IF ShouldHandleEvent(h)
         THEN [ state |-> [ isOpen |-> TRUE,
                            mouseEvent |-> [e EXCEPT !.defaultPrevented = TRUE],
                            targetOffset |-> anchor ],
                prevented |-> TRUE,
                calls |-> PassThrough(h, e) ]
       ELSE [ state |-> [st EXCEPT !.targetOffset = anchor],
              prevented |-> FALSE, calls |-> PassThrough(h, e) ]

\* a handler that anchors the menu once and keeps that anchor for later events
CallHandleContextMenuAnchoredOnce(h, e, refCurrent, chain, st) ==
    IF e.defaultPrevented
      THEN [ state |-> st, prevented |-> TRUE, calls |-> <<>> ]
    ELSE IF ShouldHandleEvent(h)
      THEN LET block == getContainingBlockOffset(refCurrent, chain)
           IN [ state |-> [ isOpen |-> TRUE,
                            mouseEvent |-> [e EXCEPT !.defaultPrevented = TRUE],
                            targetOffset |-> IF st.targetOffset # Undefined THEN st.targetOffset
                                             ELSE [ left |-> e.clientX - block.left,
                                                    top |-> e.clientY - block.top ] ],
                prevented |-> TRUE,
                calls |-> PassThrough(h, e) ]
    ELSE [ state |-> st, prevented |-> FALSE, calls |-> PassThrough(h, e) ]

\* the body of the closure h run on event e: the state it sets, whether e ends up
\* default-prevented, and the pass-through calls it makes
CallHandleContextMenu(h, e, refCurrent, chain, st) ==
    IF e.defaultPrevented
      THEN [ state |-> st, prevented |-> TRUE, calls |-> <<>> ]
    ELSE IF ShouldHandleEvent(h)
      THEN LET block == getContainingBlockOffset(refCurrent, chain)
           IN [ state |-> [ isOpen |-> TRUE,
                            mouseEvent |-> [e EXCEPT !.defaultPrevented = TRUE],
                            targetOffset |-> [ left |-> e.clientX - block.left,
                                               top |-> e.clientY - block.top ] ],
                prevented |-> TRUE,
                calls |-> PassThrough(h, e) ]
    ELSE [ state |-> st, prevented |-> FALSE, calls |-> PassThrough(h, e) ]

\* a wrapper of the menu that lets the event through as it came
cancelContextMenuForgotten(e) == e

\* const cancelContextMenu = (e) => e.preventDefault(), on the div that wraps the menu
cancelContextMenu(e) == [e EXCEPT !.defaultPrevented = TRUE]

\* a handlePopoverInteraction that keeps the retained event
handlePopoverInteractionKeepingEvent(nextOpenState, st) ==
    IF ~nextOpenState THEN [st EXCEPT !.isOpen = FALSE] ELSE st

\* handlePopoverInteraction(nextOpenState)
handlePopoverInteraction(nextOpenState, st) ==
    IF ~nextOpenState
      THEN [st EXCEPT !.isOpen = FALSE, !.mouseEvent = Undefined]
      ELSE st

\* an effect with an empty dependency list: it runs on mount only
DisabledEffectOnMountOnly(previous, dis, st) == st

\* useEffect(() => setIsOpen(false), [disabled]) after a render with `dis`, the last one having had `previous`
DisabledEffect(previous, dis, st) ==
    IF dis # previous THEN [st EXCEPT !.isOpen = FALSE] ELSE st

-----------------------------------------------------------------------------
(* The same handlers as the state-hook writes they make, in program order *)

\* a handler that would call setIsOpen(true) before the other two setters
handleContextMenuWritesOpenFirst(h, e, refCurrent, chain) ==
    IF e.defaultPrevented \/ ~ShouldHandleEvent(h) THEN <<>>
    ELSE LET block == getContainingBlockOffset(refCurrent, chain)
         IN << [ hook |-> "isOpen", value |-> TRUE ],
               [ hook |-> "mouseEvent", value |-> [e EXCEPT !.defaultPrevented = TRUE] ],
               [ hook |-> "targetOffset", value |-> [ left |-> e.clientX - block.left,
                                                      top |-> e.clientY - block.top ] ] >>

\* setMouseEvent(e); setTargetOffset({...}); setIsOpen(true)
handleContextMenuWrites(h, e, refCurrent, chain) ==
    IF e.defaultPrevented \/ ~ShouldHandleEvent(h) THEN <<>>
    ELSE LET block == getContainingBlockOffset(refCurrent, chain)
         IN << [ hook |-> "mouseEvent", value |-> [e EXCEPT !.defaultPrevented = TRUE] ],
               [ hook |-> "targetOffset", value |-> [ left |-> e.clientX - block.left,
                                                      top |-> e.clientY - block.top ] ],
               [ hook |-> "isOpen", value |-> TRUE ] >>

\* setIsOpen(false); setMouseEvent(undefined)
handlePopoverInteractionWrites(nextOpenState) ==
    IF ~nextOpenState
      THEN << [ hook |-> "isOpen", value |-> FALSE ],
              [ hook |-> "mouseEvent", value |-> Undefined ] >>
      ELSE <<>>

\* one setter call applied to the state hooks
ApplyWrite(st, w) == [st EXCEPT ![w.hook] = w.value]

-----------------------------------------------------------------------------
(* The state machine *)

NoOp(name) ==
    [ op |-> name, event |-> Undefined, prevented |-> FALSE, calls |-> <<>>, nextOpenState |-> FALSE ]

\* useState(undefined), useState(undefined), useState(false)
InitialState == [ isOpen |-> FALSE, mouseEvent |-> Undefined, targetOffset |-> Undefined ]

\* the component right after it was mounted with the props (dis, cont, chil, cb) on page `chain`:
\* the first render, the commit of the ref, and the effect, which finds isOpen false already
Mounted(dis, cont, chil, cb, chain) ==
    /\ disabled = dis
    /\ content = cont
    /\ children = chil
    /\ onContextMenu = cb
    /\ dom = chain
    /\ targetOffset = InitialState.targetOffset
    /\ mouseEvent = InitialState.mouseEvent
    /\ isOpen = InitialState.isOpen
    /\ LET r == Mount(disabled, content, children, onContextMenu, InitialState)
       IN /\ handleContextMenu = r.handleContextMenu
          /\ maybePopover = r.maybePopover
    /\ containerRef = AttachRef(children)
    /\ lastOp = NoOp("mount")
    /\ handledSoFar = "none"
    /\ pending = <<>>

\* the component is not inside another ContextMenu
Alone == outer = Undefined

Init ==
    /\ \E dis \in BOOLEAN, cont \in ContentOptions, chil \in ChildrenOptions,
          cb \in CallbackOptions, chain \in ShallowDoms : Mounted(dis, cont, chil, cb, chain)
    /\ Alone

\* the state hooks were set to st: React re-renders with the same props unless nothing changed
SetState(st) ==
    /\ isOpen' = st.isOpen
    /\ mouseEvent' = st.mouseEvent
    /\ targetOffset' = st.targetOffset
    /\ IF st = ContentProps
         THEN UNCHANGED <<maybePopover, handleContextMenu>>
         ELSE LET r == Render(disabled, content, children, onContextMenu, st,
                              containerRef, handleContextMenu)
              IN /\ maybePopover' = r.maybePopover
                 /\ handleContextMenu' = r.handleContextMenu
    /\ UNCHANGED <<disabled, content, children, onContextMenu, containerRef>>

\* one more handled trigger event
OneMore(count) == IF count = "none" THEN "one" ELSE "several"

\* the handler attached to the container runs on e, and React renders what it set
Deliver(e, name) ==
    LET out == CallHandleContextMenu(handleContextMenu, e, containerRef, dom, ContentProps)
    IN /\ SetState(out.state)
       /\ lastOp' = [ op |-> name, event |-> e, prevented |-> out.prevented,
                      calls |-> out.calls, nextOpenState |-> FALSE ]
       /\ handledSoFar' = IF ~e.defaultPrevented /\ out.prevented
                            THEN OneMore(handledSoFar) ELSE handledSoFar
       /\ UNCHANGED <<dom, pending>>

\* a contextmenu event reaches the handler attached to the container
ContextMenuEvent(e) ==
    /\ mouseEvent # Undefined => e.id # mouseEvent.id
    /\ Deliver(e, "contextmenu")
    /\ UNCHANGED outer

\* a contextmenu event inside the open panel: it bubbles through the div that wraps
\* the menu, then through the React tree to the handler attached to the container
PanelContextMenuEvent(e) ==
    /\ maybePopover # Undefined /\ maybePopover.isOpen
    /\ mouseEvent # Undefined => e.id # mouseEvent.id
    /\ Deliver(cancelContextMenu(e), "panel")
    /\ UNCHANGED outer

\* the rendered Popover reports an interaction
PopoverInteraction(nextOpenState) ==
    /\ maybePopover # Undefined
    /\ SetState(handlePopoverInteraction(nextOpenState, ContentProps))
    /\ lastOp' = [NoOp("popover") EXCEPT !.nextOpenState = nextOpenState]
    /\ UNCHANGED <<dom, handledSoFar, pending, outer>>

\* the parent renders the component with the props (dis, cont, chil, cb): the render,
\* the commit of the ref, the effect on [disabled] and the render that effect causes
Update(dis, cont, chil, cb) ==
    LET r1 == Render(dis, cont, chil, cb, ContentProps, containerRef, handleContextMenu)
        ref == AttachRef(chil)
        st == DisabledEffect(disabled, dis, ContentProps)
        r2 == IF st = ContentProps THEN r1
              ELSE Render(dis, cont, chil, cb, st, ref, r1.handleContextMenu)
    IN /\ disabled' = dis
       /\ content' = cont
       /\ children' = chil
       /\ onContextMenu' = cb
       /\ containerRef' = ref
       /\ isOpen' = st.isOpen
       /\ mouseEvent' = st.mouseEvent
       /\ targetOffset' = st.targetOffset
       /\ maybePopover' = r2.maybePopover
       /\ handleContextMenu' = r2.handleContextMenu
       /\ lastOp' = NoOp("props")
       /\ UNCHANGED <<dom, handledSoFar, pending, outer>>

\* The parent's renders, one prop at a time (a render with the same value is a plain
\* re-render of the parent). A render that changes several props at once ends in the
\* state that changing them one by one, the props of the dependency list last, ends in.
SetDisabled(dis) == Update(dis, content, children, onContextMenu)

SetContent(cont) == Update(disabled, cont, children, onContextMenu)

SetChildren(chil) == Update(disabled, content, chil, onContextMenu)

SetOnContextMenu(cb) == Update(disabled, content, children, cb)

\* the page is laid out anew (scrolling, resizing, a class toggled on the container)
Layout(chain) ==
    /\ dom' = chain
    /\ lastOp' = NoOp("layout")
    /\ UNCHANGED <<disabled, content, children, onContextMenu, targetOffset, mouseEvent,
                   isOpen, containerRef, handleContextMenu, maybePopover,
                   handledSoFar, pending, outer>>

Next ==
    \/ \E e \in Events : ContextMenuEvent(e)
    \/ \E e \in Events : PanelContextMenuEvent(e)
    \/ \E nextOpenState \in BOOLEAN : PopoverInteraction(nextOpenState)
    \/ \E dis \in BOOLEAN : SetDisabled(dis)
    \/ \E cont \in ContentOptions : SetContent(cont)
    \/ \E chil \in ChildrenOptions : SetChildren(chil)
    \/ \E cb \in CallbackOptions : SetOnContextMenu(cb)
    \/ \E chain \in ShallowDoms : Layout(chain)

Spec == Init /\ [][Next]_vars

-----------------------------------------------------------------------------
(* The same component on pages of any depth, with props that stay as mounted:   *)
(* an enabled menu with static content. Used for the geometry of the anchor.   *)

InitGeometry ==
    /\ \E chil \in AnyChildren, chain \in DomChains :
          Mounted(FALSE, "element", chil, Undefined, chain)
    /\ Alone

NextGeometry ==
    \/ \E e \in Events : ContextMenuEvent(e)
    \/ \E nextOpenState \in BOOLEAN : PopoverInteraction(nextOpenState)
    \/ \E chain \in DomChains : Layout(chain)

SpecGeometry == InitGeometry /\ [][NextGeometry]_vars

-----------------------------------------------------------------------------
(* The same component with every setter call of a handler taking effect on its   *)
(* own, in program order, and a render after each. The effect on [disabled] makes *)
(* one setter call, so a render of the parent is one step here as well.          *)

InitWrites ==
    /\ \E dis \in BOOLEAN, cont \in ContentOptions, chil \in ChildrenOptions,
          chain \in ShallowDoms : Mounted(dis, cont, chil, Undefined, chain)
    /\ Alone

\* the trigger handler starts on e: what it decides, and the setter calls it is about to make
BeginContextMenuEvent(e) ==
    /\ pending = <<>>
    /\ mouseEvent # Undefined => e.id # mouseEvent.id
    /\ LET out == CallHandleContextMenu(handleContextMenu, e, containerRef, dom, ContentProps)
       IN /\ pending' = handleContextMenuWrites(handleContextMenu, e, containerRef, dom)
          /\ lastOp' = [ op |-> "contextmenu", event |-> e, prevented |-> out.prevented,
                         calls |-> out.calls, nextOpenState |-> FALSE ]
          /\ handledSoFar' = IF ~e.defaultPrevented /\ out.prevented
                               THEN OneMore(handledSoFar) ELSE handledSoFar
    /\ UNCHANGED <<disabled, content, children, onContextMenu, targetOffset, mouseEvent,
                   isOpen, containerRef, handleContextMenu, maybePopover, dom, outer>>

\* handlePopoverInteraction starts: the setter calls it is about to make
BeginPopoverInteraction(nextOpenState) ==
    /\ pending = <<>>
    /\ maybePopover # Undefined
    /\ pending' = handlePopoverInteractionWrites(nextOpenState)
    /\ lastOp' = [NoOp("popover") EXCEPT !.nextOpenState = nextOpenState]
    /\ UNCHANGED <<disabled, content, children, onContextMenu, targetOffset, mouseEvent,
                   isOpen, containerRef, handleContextMenu, maybePopover, dom,
                   handledSoFar, outer>>

\* the next setter call of the running handler takes effect
Write ==
    /\ pending # <<>>
    /\ SetState(ApplyWrite(ContentProps, Head(pending)))
    /\ pending' = Tail(pending)
    /\ UNCHANGED <<dom, lastOp, handledSoFar, outer>>

NextWrites ==
    \/ \E e \in Events : BeginContextMenuEvent(e)
    \/ \E nextOpenState \in BOOLEAN : BeginPopoverInteraction(nextOpenState)
    \/ Write
    \/ pending = <<>> /\ \E dis \in BOOLEAN : SetDisabled(dis)
    \/ pending = <<>> /\ \E cont \in ContentOptions : SetContent(cont)
    \/ pending = <<>> /\ \E chil \in ChildrenOptions : SetChildren(chil)

SpecWrites == InitWrites /\ [][NextWrites]_vars

-----------------------------------------------------------------------------
(* Two ContextMenus, one inside the other. The variables of the module are the    *)
(* inner one; `outer` is a record of the same props, state hooks, ref, memoized   *)
(* handler and Popover element for the enclosing one, and of what its handler was *)
(* given last. dom[1] is the inner container, the rest the outer one's chain.     *)
(* Neither has a pass-through callback.                                           *)

\* pages where the outer container is the marked parent of the inner container
NestedDoms == { d \in DomChains : Len(d) = 2 /\ ~d[1].marked /\ d[2].marked
                                   /\ d[1].rect = d[2].rect
                                   /\ d[1].rect # [left |-> 0, top |-> 0] }

\* right-clicks at one place, not default-prevented by anything inside the inner container
NestedEvents ==
    { e \in Events : /\ ~e.defaultPrevented
                     /\ \A p \in ClientPoints : e.clientX <= p.clientX }

\* `content` as an element or absent
NestedContents == { "undefined", "element" }

OuterState == [ isOpen |-> outer.isOpen, mouseEvent |-> outer.mouseEvent,
                targetOffset |-> outer.targetOffset ]

\* what the outer handler was given in the turn that just ended, and did to it
OuterOp(e, prevented) == [ received |-> e, prevented |-> prevented ]

OuterMounted(dis, cont, chil) ==
    LET r == Mount(dis, cont, chil, Undefined, InitialState)
    IN [ disabled |-> dis, content |-> cont, children |-> chil,
         isOpen |-> InitialState.isOpen, mouseEvent |-> InitialState.mouseEvent,
         targetOffset |-> InitialState.targetOffset,
         containerRef |-> AttachRef(chil),
         handleContextMenu |-> r.handleContextMenu, maybePopover |-> r.maybePopover,
         lastOp |-> OuterOp(Undefined, FALSE) ]

\* the outer state hooks were set to st: it re-renders unless nothing changed
OuterSetState(st, op) ==
    IF st = OuterState THEN [outer EXCEPT !.lastOp = op]
    ELSE LET r == Render(outer.disabled, outer.content, outer.children, Undefined, st,
                         outer.containerRef, outer.handleContextMenu)
         IN [outer EXCEPT !.isOpen = st.isOpen, !.mouseEvent = st.mouseEvent,
                          !.targetOffset = st.targetOffset,
                          !.maybePopover = r.maybePopover,
                          !.handleContextMenu = r.handleContextMenu,
                          !.lastOp = op]

\* the outer handler runs on e
OuterDeliver(e) ==
    LET out == CallHandleContextMenu(outer.handleContextMenu, e, outer.containerRef,
                                     Tail(dom), OuterState)
    IN OuterSetState(out.state, OuterOp(e, out.prevented))

\* the outer component is rendered with the props (dis, cont, chil), as in Update
OuterUpdate(dis, cont, chil) ==
    LET r1 == Render(dis, cont, chil, Undefined, OuterState, outer.containerRef,
                     outer.handleContextMenu)
        ref == AttachRef(chil)
        st == DisabledEffect(outer.disabled, dis, OuterState)
        r2 == IF st = OuterState THEN r1
              ELSE Render(dis, cont, chil, Undefined, st, ref, r1.handleContextMenu)
    IN /\ outer' = [ disabled |-> dis, content |-> cont, children |-> chil,
                     isOpen |-> st.isOpen, mouseEvent |-> st.mouseEvent,
                     targetOffset |-> st.targetOffset, containerRef |-> ref,
                     handleContextMenu |-> r2.handleContextMenu,
                     maybePopover |-> r2.maybePopover,
                     lastOp |-> OuterOp(Undefined, FALSE) ]
       /\ lastOp' = NoOp("outer")
       /\ UNCHANGED <<disabled, content, children, onContextMenu, targetOffset, mouseEvent,
                      isOpen, containerRef, handleContextMenu, maybePopover, dom,
                      handledSoFar, pending>>

OuterSetDisabled(dis) == OuterUpdate(dis, outer.content, outer.children)
OuterSetContent(cont) == OuterUpdate(outer.disabled, cont, outer.children)
OuterSetChildren(chil) == OuterUpdate(outer.disabled, outer.content, chil)

\* the outer Popover reports an interaction
OuterPopoverInteraction(nextOpenState) ==
    /\ outer.maybePopover # Undefined
    /\ outer' = OuterSetState(handlePopoverInteraction(nextOpenState, OuterState),
                              OuterOp(Undefined, FALSE))
    /\ lastOp' = NoOp("outer")
    /\ UNCHANGED <<disabled, content, children, onContextMenu, targetOffset, mouseEvent,
                   isOpen, containerRef, handleContextMenu, maybePopover, dom,
                   handledSoFar, pending>>

\* a contextmenu event inside the inner container: the inner handler runs on it,
\* then it bubbles, with the mark the inner handler left on it, to the outer one
NestedContextMenuEvent(e) ==
    /\ mouseEvent # Undefined => e.id # mouseEvent.id
    /\ outer.mouseEvent # Undefined => e.id # outer.mouseEvent.id
    /\ Deliver(e, "contextmenu")
    /\ LET inner == CallHandleContextMenu(handleContextMenu, e, containerRef, dom, ContentProps)
       IN outer' = OuterDeliver([e EXCEPT !.defaultPrevented = inner.prevented])

\* a contextmenu event inside the outer container but outside the inner one
OuterContextMenuEvent(e) ==
    /\ outer.mouseEvent # Undefined => e.id # outer.mouseEvent.id
    /\ outer' = OuterDeliver(e)
    /\ lastOp' = NoOp("outer")
    /\ UNCHANGED <<disabled, content, children, onContextMenu, targetOffset, mouseEvent,
                   isOpen, containerRef, handleContextMenu, maybePopover, dom,
                   handledSoFar, pending>>

InitNested ==
    /\ \E dis \in BOOLEAN, cont \in NestedContents, chil \in ChildrenOptions,
          chain \in NestedDoms : Mounted(dis, cont, chil, Undefined, chain)
    /\ \E dis \in BOOLEAN, cont \in NestedContents, chil \in ChildrenOptions :
          outer = OuterMounted(dis, cont, chil)

NextNested ==
    \/ \E e \in NestedEvents : NestedContextMenuEvent(e)
    \/ \E e \in NestedEvents : OuterContextMenuEvent(e)
    \/ \E nextOpenState \in BOOLEAN : PopoverInteraction(nextOpenState)
    \/ \E nextOpenState \in BOOLEAN : OuterPopoverInteraction(nextOpenState)
    \/ \E dis \in BOOLEAN : SetDisabled(dis)
    \/ \E cont \in NestedContents : SetContent(cont)
    \/ \E chil \in ChildrenOptions : SetChildren(chil)
    \/ \E dis \in BOOLEAN : OuterSetDisabled(dis)
    \/ \E cont \in NestedContents : OuterSetContent(cont)
    \/ \E chil \in ChildrenOptions : OuterSetChildren(chil)

SpecNested == InitNested /\ [][NextNested]_vars

-----------------------------------------------------------------------------
(* Vocabulary of the properties *)

state == <<isOpen, mouseEvent, targetOffset>>

\* the turn that just ended ran the trigger handler
Triggered == lastOp.op = "contextmenu"

\* ... and the controller itself called preventDefault on the event
Handled == Triggered /\ ~lastOp.event.defaultPrevented /\ lastOp.prevented

\* the event of the turn that just ended, as the controller leaves it when it handles it
HandledEvent == [lastOp.event EXCEPT !.defaultPrevented = TRUE]

\* the `content` option yields something to show
ContentPresent == content \in { "element", "function:element" }

\* the one pass-through call the turn that just ended should have made
OneCall == << [callback |-> onContextMenu, event |-> lastOp.event.id] >>

-----------------------------------------------------------------------------
(* C1: every trigger event that is not yet default-prevented, received while      *)
(* disabled = false and content is present, ends with isOpen = true, mouseEvent  *)
(* = the event, targetOffset = client coordinates minus the containing block's   *)
(* left/top, and the event default-prevented.                                    *)
C1_TriggerOpens ==
    (Triggered /\ ~lastOp.event.defaultPrevented /\ ~disabled /\ ContentPresent)
      => /\ isOpen
         /\ mouseEvent = HandledEvent
         /\ targetOffset =
              [ left |-> lastOp.event.clientX - getContainingBlockOffset(containerRef, dom).left,
                top |-> lastOp.event.clientY - getContainingBlockOffset(containerRef, dom).top ]
         /\ lastOp.prevented

C3_SkippedEventChangesNothing ==
    [][ ( /\ lastOp'.op = "contextmenu"
          /\ disabled \/ (~ContentPresent /\ ~IsFunction(children)) )
        => /\ UNCHANGED state
           /\ lastOp'.prevented = lastOp'.event.defaultPrevented ]_vars

(* C4: every change of the disabled flag, in either direction, leaves isOpen =   *)
(* false: disabling closes an open menu, enabling never opens one.               *)
C4_DisabledChangeCloses ==
    [][ disabled' # disabled => ~isOpen' ]_vars

C4_Witness ==
    lastOp.op = "props" /\ disabled /\ ~isOpen /\ mouseEvent # Undefined

(* C5: a popover report with nextOpenState = false sets isOpen = false, clears   *)
(* mouseEvent and keeps targetOffset; a report with nextOpenState = true keeps   *)
(* all three.                                                                    *)
C5_PopoverReport ==
    [][ lastOp'.op = "popover"
        => IF lastOp'.nextOpenState
             THEN UNCHANGED state
             ELSE ~isOpen' /\ mouseEvent' = Undefined /\ targetOffset' = targetOffset ]_vars

C5_Witness ==
    /\ lastOp.op = "popover" /\ ~lastOp.nextOpenState
    /\ ~isOpen /\ mouseEvent = Undefined /\ targetOffset # Undefined

(* C6: whenever isOpen is false, mouseEvent is undefined.                        *)
C6_ClosedHasNoEvent ==
    ~isOpen => mouseEvent = Undefined

C8_PanelOnlyEnabledWithContent ==
    /\ disabled => maybePopover = Undefined
    /\ content \in { "undefined", "function:undefined" } => maybePopover = Undefined

C8_Witness ==
    /\ disabled /\ content = "function:element" /\ maybePopover = Undefined
    /\ targetOffset # Undefined

\* dom[i] is the nearest element, from the container upwards, that carries the marker
NearestMarked(i) == dom[i].marked /\ \A j \in 1..(i - 1) : ~dom[j].marked

\* what the handled event's coordinates and the anchor offset differ by
BlockOffsetUsed ==
    [ left |-> lastOp.event.clientX - targetOffset.left,
      top |-> lastOp.event.clientY - targetOffset.top ]

(* C9: the offset subtracted from the event's coordinates is the left/top of     *)
(* the nearest marked element of the container's ancestor chain (the container   *)
(* included), and {0, 0} when there is none or the ref is not attached; so with  *)
(* a marked ancestor at {50, 30} an event at (120, 80) is anchored at {70, 50}.  *)
C9_ContainingBlockOffset ==
    Handled =>
      /\ (containerRef = Null \/ \A i \in 1..Len(dom) : ~dom[i].marked)
           => /\ BlockOffsetUsed = [left |-> 0, top |-> 0]
              /\ targetOffset = [left |-> lastOp.event.clientX, top |-> lastOp.event.clientY]
      /\ \A i \in 1..Len(dom) :
           (containerRef # Null /\ NearestMarked(i)) => BlockOffsetUsed = dom[i].rect
      /\ ( /\ containerRef # Null
           /\ \E i \in 1..Len(dom) : NearestMarked(i) /\ dom[i].rect = [left |-> 50, top |-> 30]
           /\ lastOp.event.clientX = 120 /\ lastOp.event.clientY = 80 )
           => targetOffset = [left |-> 70, top |-> 50]

C9_Witness ==
    /\ Handled /\ containerRef # Null /\ Len(dom) = 2
    /\ ~dom[1].marked /\ dom[1].rect = [left |-> 0, top |-> 0]
    /\ dom[2].marked /\ dom[2].rect = [left |-> 50, top |-> 30]
    /\ lastOp.event.clientX = 120 /\ lastOp.event.clientY = 80
    /\ targetOffset = [left |-> 70, top |-> 50]

(* C10: the key of the rendered Popover is "default" exactly when targetOffset   *)
(* is undefined and "<left>x<top>" otherwise, and from one render to the next    *)
(* the keys are equal if and only if the anchor offsets are equal.               *)
C10_PopoverKey ==
    /\ [](maybePopover # Undefined =>
            /\ (maybePopover.key = <<"d", "e", "f", "a", "u", "l", "t">>) <=> (targetOffset = Undefined)
            /\ targetOffset = [left |-> 70, top |-> 50]
                 => maybePopover.key = <<"7", "0", "x", "5", "0">>
            /\ targetOffset = [left |-> 1158, top |-> 0 - 30]
                 => maybePopover.key = <<"1", "1", "5", "8", "x", "-", "3", "0">>)
    /\ [][ (maybePopover # Undefined /\ maybePopover' # Undefined)
            => ((maybePopover'.key = maybePopover.key) <=> (targetOffset' = targetOffset)) ]_vars

C10_Witness ==
    /\ Handled /\ maybePopover # Undefined
    /\ targetOffset = [left |-> 1208, top |-> 0]
    /\ maybePopover.key = <<"1", "2", "0", "8", "x", "0">>

\* C11: the component is mounted closed, with no anchor and no event, and the anchor
\* stays undefined as long as no trigger event has been handled: skipped trigger
\* events, popover reports and changes of the disabled flag never define it.
C11_NoAnchorBeforeFirstHandled ==
    /\ lastOp.op = "mount" => ~isOpen /\ targetOffset = Undefined /\ mouseEvent = Undefined
    /\ handledSoFar = "none" => targetOffset = Undefined

\* a trigger event was skipped by a component that has handled none yet
C11_Witness ==
    /\ handledSoFar = "none"
    /\ Triggered /\ ~lastOp.event.defaultPrevented /\ ~lastOp.prevented
    /\ targetOffset = Undefined

-----------------------------------------------------------------------------
\* the anchor the handler computes for the event of the turn that just ended
AnchorOfEvent ==
    [ left |-> lastOp.event.clientX - getContainingBlockOffset(containerRef, dom).left,
      top |-> lastOp.event.clientY - getContainingBlockOffset(containerRef, dom).top ]

(* C13: with children in the function form, a trigger event that is not yet       *)
(* default-prevented and arrives while disabled = false is handled (isOpen true,  *)
(* mouseEvent and targetOffset set from it, default prevented), also when the     *)
(* content resolves to undefined and no floating panel is rendered.               *)
C13_FunctionChildrenHandled ==
    (Triggered /\ ~lastOp.event.defaultPrevented /\ ~disabled /\ IsFunction(children))
      => /\ isOpen
         /\ mouseEvent = HandledEvent
         /\ targetOffset = AnchorOfEvent
         /\ lastOp.prevented
         /\ ~ContentPresent => maybePopover = Undefined

(* C14: while disabled is true (the effect on [disabled] having run), isOpen is   *)
(* false, whatever trigger events and popover reports arrive.                     *)
C14_ClosedWhileDisabled == disabled => ~isOpen

\* a menu was opened, the controller was disabled, and a trigger event arrived since
C14_Witness ==
    /\ disabled /\ ~isOpen /\ handledSoFar # "none"
    /\ Triggered /\ ~lastOp.event.defaultPrevented

(* C15: the last write wins. When a trigger event is handled after an earlier one *)
(* was, with or without a popover report in between, mouseEvent is the later      *)
(* event and targetOffset is computed from the later event's coordinates and the  *)
(* containing block's position at that time: nothing of the earlier event stays.  *)
C15_LastWriteWins ==
    [][ (Handled' /\ handledSoFar # "none")
        => /\ mouseEvent' = HandledEvent'
           /\ mouseEvent' # mouseEvent
           /\ targetOffset' = AnchorOfEvent'
           /\ isOpen' ]_vars

\* a trigger event was handled after at least one other had been, and the state is all its own
C15_Witness ==
    /\ Handled /\ handledSoFar = "several"
    /\ isOpen /\ mouseEvent = HandledEvent /\ targetOffset = AnchorOfEvent

(* C16: a right-click inside the open panel is default-prevented by the div that  *)
(* wraps the menu before it reaches the controller's trigger handler, which then  *)
(* leaves isOpen, mouseEvent and targetOffset as they are: the menu stays open at *)
(* the same anchor.                                                               *)
C16_PanelRightClickKeepsMenu ==
    [][ lastOp'.op = "panel"
        => /\ lastOp'.event.defaultPrevented
           /\ UNCHANGED state
           /\ isOpen' /\ maybePopover' = maybePopover ]_vars

\* a right-click inside the panel of a menu opened by another event
C16_Witness ==
    /\ lastOp.op = "panel" /\ lastOp.event.defaultPrevented
    /\ isOpen /\ mouseEvent.id # lastOp.event.id
    /\ maybePopover # Undefined /\ maybePopover.isOpen

(* C18: the trigger handler decides from the props in effect when the event       *)
(* arrives: a trigger event that is not yet default-prevented is handled exactly  *)
(* when, at that moment, disabled = false and children is a function or the       *)
(* resolved content is present; the content and children of earlier renders have  *)
(* no part in the decision.                                                       *)
C18_DecidesFromCurrentProps ==
    (Triggered /\ ~lastOp.event.defaultPrevented)
      => ( lastOp.prevented
           <=> (~disabled /\ (IsFunction(children) \/ ContentPresent)) )

(* C17: in every state, the states between the setter calls of one handler        *)
(* included (each call taking effect on its own, in program order), isOpen = true *)
(* implies that mouseEvent and targetOffset are defined.                          *)
C17_OpenHasEventAndAnchor ==
    isOpen => mouseEvent # Undefined /\ targetOffset # Undefined

\* between two setter calls of the trigger handler, run while a menu is open: the
\* event is the new one already, the anchor is the old one still
C17_Witness ==
    /\ Len(pending) = 2 /\ pending[2].hook = "isOpen"
    /\ isOpen /\ mouseEvent = HandledEvent /\ targetOffset # Undefined

-----------------------------------------------------------------------------
\* the outer controller's props make it eligible: enabled, and children a function or content present
OuterEligible ==
    ~outer.disabled /\ (IsFunction(outer.children) \/ outer.content = "element")

(* C12: one trigger event bubbling from an inner controller to an outer one. If   *)
(* the inner one handles it (marks it), the outer one changes no state, so the    *)
(* event opens at most one menu; if the inner one skips it, the event reaches the *)
(* outer one unmarked and the outer one handles it exactly when it is eligible    *)
(* itself: not disabled, and children a function or content present.              *)
C12_OneEventOneMenu ==
    [][ lastOp'.op = "contextmenu"
        => /\ lastOp'.prevented
                => /\ outer'.lastOp.received.defaultPrevented
                   /\ OuterState' = OuterState
                   /\ outer'.mouseEvent # mouseEvent'
           /\ ~lastOp'.prevented
                => /\ UNCHANGED state
                   /\ ~outer'.lastOp.received.defaultPrevented
                   /\ outer'.lastOp.prevented <=> OuterEligible'
                   /\ IF OuterEligible'
                        THEN outer'.isOpen /\ outer'.mouseEvent = HandledEvent'
                        ELSE OuterState' = OuterState ]_vars

====
